---- MODULE Spec2Model ----
(***************************************************************************)
(* Model of web/audio_visualizer.js: one AudioVisualizer attached to one   *)
(* node, the audio elements it binds, and the part of the Web Audio graph  *)
(* it builds (AudioContext, AnalyserNode, MediaElementSource).             *)
(*                                                                         *)
(* Every method of the class is an operator from a world record to a world *)
(* record, so that a handler that calls other methods is one action.  The  *)
(* world record has one field per variable.                                *)
(*                                                                         *)
(* Web Audio rules the code relies on, as the platform applies them:       *)
(*  - AudioContext.close() and resume() settle asynchronously; until then  *)
(*    .state keeps its previous value ("closing" is read as not closed).   *)
(*  - AudioNode.connect throws InvalidAccessError when the two nodes were  *)
(*    created by different AudioContexts; disconnect() never throws.       *)
(*  - AnalyserNode.fftSize takes a power of two in 32..32768 and throws    *)
(*    IndexSizeError for anything else; frequencyBinCount is fftSize / 2.  *)
(*    Spec keeps the fft_size widget at its default, CfgSpec frees it.     *)
(*  - this extension is the only code that creates a MediaElementSource    *)
(*    for the elements it sees, so createMediaElementSource itself does    *)
(*    not throw; the AudioContext constructor may throw at any call.       *)
(***************************************************************************)
EXTENDS Integers, FiniteSets, Sequences, TLC

VARIABLES
    \* ---- configuration of the node, fixed at construction
    isOfficialNode,      \* no "visualization_mode" widget on the node
    hasAudioWidget,      \* the node has an "audio" widget
    \* ---- AudioVisualizer fields
    visualizerEnabled,
    mode,                \* config.mode
    audioContext,        \* 0 = null, else the id of an AudioContext
    analyser,            \* 0 = null, else the id of the context that made it
    audioElement,        \* "none" = null, else the bound element
    source,              \* "none" = null, else the element whose source node it is
    animationFrameId,    \* 0 = null, else a frame request id
    isInitialized,
    canvas,              \* canvas and its 2d context exist
    \* ---- readiness polling
    initState,           \* "polling", "done", "gaveup"  (init/tryInit)
    setupState,          \* "off", "polling", "listening", "gaveup" (setupOfficialAudioUI)
    attempts,            \* the argument of the tryInit call the pending timer makes
    canvasWidgets,       \* "visualizer_canvas" widgets in node.widgets
    visualizers,         \* AudioVisualizer objects constructed for the node
    destroyed,           \* onRemoved ran
    \* ---- audio elements: "ui" is the host's audioUI element, "int" the
    \* ---- Audio object loadAudio creates
    alive,               \* the element exists
    hasSrc,              \* element.src is non-empty
    paused,              \* element.paused
    readyState,          \* 0, 1 (metadata), 2 (current data or more)
    marker,              \* element._audioVisualizerSource is set
    listeners,           \* pending once-listeners for "loadeddata" added by attach
    timeouts,            \* pending 100 ms initialisation timeouts of attach
    onloaded,            \* the element's onloadeddata handler can still fire
    pollers,             \* pending checkSrc timers of handleAudioChange
    \* ---- Web Audio graph
    ctxState,            \* per context: "none","suspended","running","closing","closed"
    anaDest,             \* the context's analyser is connected to its destination
    srcCtx,              \* the context that created the element's source node, 0 = no node
    srcConn,             \* the analyser (context id) the source node feeds, 0 = none
    pendingFrames,       \* ids of the frame requests not yet run or cancelled
    \* ---- configuration and rendering
    backgroundOpacity,   \* this.backgroundOpacity, in hundredths
    opacityProp,         \* node.properties[opacityStorageKey]
    fftWidget,           \* the value of the "fft_size" widget, as parseInt reads it
    fftSize,             \* config.fftSize
    anaFft,              \* analyser.fftSize, 0 = no analyser
    frame,               \* the buffer the last operation's draw() read, if it drew
    modeWrite,           \* what the last operation wrote to node.properties[modeStorageKey]
    released,            \* the bound element the last operation's attach to another one cleaned up
    rect,                \* canvas.getBoundingClientRect(): the canvas's on-screen size
    canvasSize,          \* canvas.width and canvas.height
    amplitude,           \* the level of the samples the analyser holds, in 1/128 of full scale
    backgroundImageCanvas, \* the cached background canvas's size, NoImage = null
    imageLoads,          \* sizes of the images setBackgroundImage calls are waiting to load
    \* ---- history
    createCalls,         \* calls of createMediaElementSource on the element
    last,                \* the operation that ran last ("env": the host or the platform moved)
    lastFail             \* how the attach of the last operation failed, "none" if it did not

vars == << isOfficialNode, hasAudioWidget, visualizerEnabled, mode,
           audioContext, analyser, audioElement, source, animationFrameId,
           isInitialized, canvas, initState, setupState, attempts,
           canvasWidgets, visualizers, destroyed, alive, hasSrc, paused, readyState, marker,
           listeners, timeouts, onloaded, pollers, ctxState, anaDest, srcCtx,
           srcConn, pendingFrames, backgroundOpacity, opacityProp, fftWidget,
           fftSize, anaFft, frame, modeWrite, released, rect, canvasSize,
           amplitude, backgroundImageCanvas, imageLoads, createCalls, last,
           lastFail >>

\* ------------------------------------------------------------------ bounds
MaxCtx == 4          \* AudioContext ids in use at one time
MaxFrames == 2       \* frame request ids in use at one time
MaxPending == 1      \* pending listeners / timeouts / pollers per element
MaxModes == 2        \* modes the user and the saved properties choose among
MaxLoads == 1        \* setBackgroundImage calls waiting for their image at one time

\* ------------------------------------------------------- program constants

VISUALIZATION_MODES == {"wave", "bars", "circular"}
ModeOrder == << "wave", "bars", "circular" >>
ModeInputs == {ModeOrder[i] : i \in 1..(IF MaxModes < 3 THEN MaxModes ELSE 3)}

Elems == {"ui", "int"}
NoElem == "none"
CtxIds == 1..MaxCtx
FrameIds == 1..MaxFrames
\* what the platform does at "new AudioContext()": it returns a context,
\* or it throws
EnvChoices == {"ok", "ctor_throws"}

Min(S) == CHOOSE x \in S : \A y \in S : x <= y

\* JavaScript values a number is expected in: a number, NaN, or
\* undefined/null.  Opacities are counted in hundredths.
Num(n) == [t |-> "num", v |-> n]
NaN == [t |-> "nan", v |-> 0]
Unset == [t |-> "unset", v |-> 0]

OpacityMax == 50         \* Math.min(0.5, ...)
OpacityDefault == 20     \* ?? 0.2
MaxAttempts == 50        \* tryInit gives up when attempts > 50
FftDefault == 2048       \* config.fftSize, and a new AnalyserNode's fftSize

RECURSIVE Pow2(_)
Pow2(k) == IF k = 0 THEN 1 ELSE 2 * Pow2(k - 1)

\* the sizes the platform takes for AnalyserNode.fftSize; any other value
\* makes the assignment throw IndexSizeError
PlatformFftSizes == {Pow2(k) : k \in 5..15}
Accepts(size) == size.t = "num" /\ size.v \in PlatformFftSizes

\* a bin count as large as the window (variant that C16 tells apart)
FrequencyBinCountWhole(n) == n

\* AnalyserNode.frequencyBinCount
FrequencyBinCount(n) == n \div 2

\* values given to setBackgroundOpacity and found in saved properties
OpacityInputs == {Num(v) : v \in {-100, 0, 20, 50, 90}} \cup {NaN, Unset}
SavedOpacities == {Num(v) : v \in {20, 90}} \cup {Unset}

\* values parseInt reads from the "fft_size" widget
FftInputs == {Num(n) : n \in {0, 64, 128, 1000, 32768, 65536}} \cup {NaN}

\* sizes in pixels
Size(width, height) == [w |-> width, h |-> height]
\* createCanvasWidget: canvas.width = 800, canvas.height = 200
CanvasDefault == Size(800, 200)
NoImage == Size(0, 0)
MinCanvasHeight == 200   \* Math.max(200, rect.height) in draw
BarsToDraw == 180        \* drawCircular
MaxImageSize == 512      \* createImageCanvasFromDataUrl(dataUrl, 512)

Max(a, b) == IF a > b THEN a ELSE b
Least(a, b) == IF a < b THEN a ELSE b

\* what the renderer of a draw() painted.  Lengths are exact fractions, kept
\* as numerators: main holds 256 * y of the wave's samples, 255 * height of
\* the bars, 765 * length of the radial lines; aux holds 256 * y of the
\* second wave, 7650 * length of the reflection lines.  The renderer read
\* reads samples, at the indices lo, lo + step, ... up to hi.
NoMarks == [main |-> {}, aux |-> {}, lo |-> 0, hi |-> 0, step |-> 0, reads |-> 0]

\* what a draw() read: kind "time" (getByteTimeDomainData) or "freq"
\* (getByteFrequencyData) into a Uint8Array of len bytes, painted by the
\* renderer of mode by, after the calls listed, on a canvas of the size given
NoFrame == [kind |-> "none", len |-> 0, by |-> "none", calls |-> << >>,
            size |-> NoImage, marks |-> NoMarks]

\* on-screen sizes of the canvas: laid out, collapsed, hidden
RectInputs == {Size(800, 200), Size(640, 360), Size(400, 0), Size(0, 150)}

\* levels of the samples: silence, and half of full scale
AmplitudeInputs == {0, 64}

\* widths and heights of the images uploaded or found in saved properties
ImageEdges == {1, 2, 300, 512, 513, 1024, 4096}
ImageInputs == {Size(iw, ih) : iw \in ImageEdges, ih \in ImageEdges}

\* Math.round(p / q) for p >= 0, q > 0
Round(p, q) == (2 * p + q) \div (2 * q)

\* a scaling that lets a dimension round to 0 (variant that C25 tells apart)
ImageCanvasUnclamped(img, maxSize) ==
    LET longest == Max(img.w, img.h)
    IN IF longest <= maxSize
       THEN img
       ELSE Size(Round(img.w * maxSize, longest), Round(img.h * maxSize, longest))

\* createImageCanvasFromDataUrl: scale = Math.min(1, maxSize / longest edge),
\* each dimension Math.max(1, Math.round(dimension * scale))
ImageCanvas(img, maxSize) ==
    LET longest == Max(img.w, img.h)
    IN IF longest <= maxSize
       THEN Size(Max(1, img.w), Max(1, img.h))
       ELSE Size(Max(1, Round(img.w * maxSize, longest)),
                 Max(1, Round(img.h * maxSize, longest)))

\* ------------------------------------------------------------ world record
Cur == [ isOfficialNode |-> isOfficialNode, hasAudioWidget |-> hasAudioWidget,
         visualizerEnabled |-> visualizerEnabled, mode |-> mode,
         audioContext |-> audioContext, analyser |-> analyser,
         audioElement |-> audioElement, source |-> source,
         animationFrameId |-> animationFrameId, isInitialized |-> isInitialized,
         canvas |-> canvas, initState |-> initState, setupState |-> setupState,
         attempts |-> attempts, canvasWidgets |-> canvasWidgets,
         visualizers |-> visualizers,
         destroyed |-> destroyed, alive |-> alive,
         hasSrc |-> hasSrc, paused |-> paused, readyState |-> readyState,
         marker |-> marker, listeners |-> listeners, timeouts |-> timeouts,
         onloaded |-> onloaded, pollers |-> pollers, ctxState |-> ctxState,
         anaDest |-> anaDest, srcCtx |-> srcCtx, srcConn |-> srcConn,
         pendingFrames |-> pendingFrames, createCalls |-> createCalls,
         backgroundOpacity |-> backgroundOpacity, opacityProp |-> opacityProp,
         fftWidget |-> fftWidget, fftSize |-> fftSize, anaFft |-> anaFft,
         frame |-> frame, modeWrite |-> modeWrite, released |-> released,
         rect |-> rect, canvasSize |-> canvasSize, amplitude |-> amplitude,
         backgroundImageCanvas |-> backgroundImageCanvas, imageLoads |-> imageLoads,
         last |-> last, lastFail |-> lastFail ]

\* the contexts to keep, in a fixed order: those a field or node refers
\* to, then the open ones nothing refers to
RECURSIVE Distinct(_, _)
Distinct(seq, acc) ==
    IF seq = << >> THEN acc
    ELSE Distinct(Tail(seq),
                  IF Head(seq) = 0 \/ \E i \in 1..Len(acc) : acc[i] = Head(seq)
                  THEN acc ELSE Append(acc, Head(seq)))

RECURSIVE Ascending(_)
Ascending(S) ==
    IF S = {} THEN << >>
    ELSE LET x == CHOOSE y \in S : \A z \in S : y <= z
         IN << x >> \o Ascending(S \ {x})

Kept(w) ==
    Distinct(<< w.srcCtx["ui"], w.srcCtx["int"], w.audioContext, w.analyser,
                w.srcConn["ui"], w.srcConn["int"] >>
             \o Ascending({c \in CtxIds : w.ctxState[c] \in {"suspended", "running"}}),
             << >>)

\* Context ids are names only.  A context that finished closing looks the
\* same to the program whether or not the close has settled, unless
\* this.audioContext still refers to it; a closed context nothing refers to
\* is forgotten; the contexts kept are renamed 1, 2, ... in the order Kept.
Normalize(w) ==
    LET kept == Kept(w)
        new(c) == IF c = 0 THEN 0 ELSE CHOOSE i \in 1..Len(kept) : kept[i] = c
        state(c) == IF w.ctxState[c] = "closing" /\ c # w.audioContext
                    THEN "closed" ELSE w.ctxState[c]
    IN [w EXCEPT
          !.ctxState = [i \in CtxIds |-> IF i <= Len(kept) THEN state(kept[i]) ELSE "none"],
          !.anaDest = [i \in CtxIds |-> IF i <= Len(kept) THEN w.anaDest[kept[i]] ELSE FALSE],
          !.audioContext = new(w.audioContext),
          !.analyser = new(w.analyser),
          !.srcCtx = [e \in Elems |-> new(w.srcCtx[e])],
          !.srcConn = [e \in Elems |-> new(w.srcConn[e])]]

\* the model's bounds: ids are available and the counters are in range
Bounded(w) ==
    /\ \A e \in Elems : w.listeners[e] <= MaxPending /\ w.timeouts[e] <= MaxPending
    /\ w.pollers <= MaxPending

Room == /\ \E c \in CtxIds : ctxState[c] = "none"
        /\ \E f \in FrameIds : f \notin pendingFrames

\* ------------------------------------------------------- AudioVisualizer
\* drawPlaceholder paints the canvas and changes no field
DrawPlaceholder(w) == w

\* a stopVisualization that forgets the request without cancelling it
\* (variant that C13 tells apart)
StopVisualizationNoCancel(w) ==
    IF w.animationFrameId # 0
    THEN [w EXCEPT !.animationFrameId = 0]
    ELSE w

\* stopVisualization: cancel the request animationFrameId names, if any
StopVisualization(w) ==
    IF w.animationFrameId # 0
    THEN [w EXCEPT !.pendingFrames = @ \ {w.animationFrameId}, !.animationFrameId = 0]
    ELSE w

\* requestAnimationFrame returns an id no pending request has
FreshFrame(w) == Min(FrameIds \ w.pendingFrames)

\* a time-domain read that hands the samples over as they are (variant
\* that C22 tells apart)
TimeByteAsIs(a) == Max(0, Least(255, a))

\* AnalyserNode.getByteTimeDomainData: a sample x in [-1, 1] becomes the
\* byte floor(128 * (1 + x)), kept within 0..255.  The buffer the analyser
\* fills is modelled by one level for all of its bytes.
TimeByte(a) == Max(0, Least(255, 128 + a))

\* AnalyserNode.getByteFrequencyData: silence becomes 0, a level at or above
\* maxDecibels (-30 dB, 5/128 of full scale) becomes 255
FreqByte(a) == IF a = 0 THEN 0 ELSE 255

\* drawWave: y = (dataArray[i] / 128.0 * HEIGHT) / 2 for every i, and the
\* second wave 5 pixels below for every fifth i
DrawWave(a, WIDTH, HEIGHT, bufferLength) ==
    [main |-> {TimeByte(a) * HEIGHT : i \in {0}},
     aux |-> {TimeByte(a) * HEIGHT + 5 * 256 : i \in {0}},
     lo |-> 0, hi |-> bufferLength - 1, step |-> 1, reads |-> bufferLength]

\* drawBars: barHeight = (dataArray[i] / 255) * HEIGHT; bars are
\* (WIDTH / bufferLength) * 2.5 wide, one pixel apart, and the loop ends
\* with the first bar that starts beyond WIDTH: after k bars x is
\* k * (5 * WIDTH + 2 * bufferLength) / (2 * bufferLength)
DrawBars(a, WIDTH, HEIGHT, bufferLength) ==
    LET k == (2 * bufferLength * WIDTH) \div (5 * WIDTH + 2 * bufferLength) + 1
        n == Least(bufferLength, k)
    IN [main |-> {FreqByte(a) * HEIGHT : i \in {0}}, aux |-> {},
        lo |-> 0, hi |-> n - 1, step |-> 1, reads |-> n]

\* a drawCircular whose stride is rounded up (variant that C23 tells apart)
DrawCircularRoundedUp(a, WIDTH, HEIGHT, bufferLength) ==
    LET step == (bufferLength + BarsToDraw - 1) \div BarsToDraw
        index == [i \in 0..(BarsToDraw - 1) |-> i * step]
        read == {index[i] : i \in DOMAIN index}
    IN [main |-> {FreqByte(a) * Least(WIDTH, HEIGHT) : i \in DOMAIN index},
        aux |-> {3 * FreqByte(a) * Least(WIDTH, HEIGHT) : i \in DOMAIN index},
        lo |-> Min(read), hi |-> CHOOSE x \in read : \A y \in read : y <= x,
        step |-> step, reads |-> Cardinality(DOMAIN index)]

\* drawCircular: 180 lines, line i from dataArray[i * step], of length
\* (value / 255) * (Math.min(WIDTH, HEIGHT) / 3), and its reflection of
\* 0.3 times that length
DrawCircular(a, WIDTH, HEIGHT, bufferLength) ==
    LET step == bufferLength \div BarsToDraw
        index == [i \in 0..(BarsToDraw - 1) |-> i * step]
        read == {index[i] : i \in DOMAIN index}
    IN [main |-> {FreqByte(a) * Least(WIDTH, HEIGHT) : i \in DOMAIN index},
        aux |-> {3 * FreqByte(a) * Least(WIDTH, HEIGHT) : i \in DOMAIN index},
        lo |-> Min(read), hi |-> CHOOSE x \in read : \A y \in read : y <= x,
        step |-> step, reads |-> Cardinality(DOMAIN index)]

\* the part of draw after its guard: fit the canvas to its on-screen size,
\* paint the background, dispatch on the mode, request the next frame
Paint(w) ==
    LET f == FreshFrame(w)
        fit == /\ w.rect.w > 0 /\ w.rect.h > 0
               /\ w.canvasSize.w # w.rect.w \/ w.canvasSize.h # w.rect.h
        size == IF fit THEN Size(w.rect.w, Max(MinCanvasHeight, w.rect.h))
                ELSE w.canvasSize
        bufferLength == FrequencyBinCount(w.anaFft)
        marks == IF w.mode = "wave"
                 THEN DrawWave(w.amplitude, size.w, size.h, bufferLength)
                 ELSE IF w.mode = "bars"
                 THEN DrawBars(w.amplitude, size.w, size.h, bufferLength)
                 ELSE IF w.mode = "circular"
                 THEN DrawCircular(w.amplitude, size.w, size.h, bufferLength)
                 ELSE NoMarks
    IN [w EXCEPT !.pendingFrames = @ \cup {f}, !.animationFrameId = f,
                 !.canvasSize = size,
                 !.frame = [kind |-> IF w.mode = "wave" THEN "time"
                                     ELSE IF w.mode \in {"bars", "circular"}
                                     THEN "freq" ELSE "blank",
                            len |-> bufferLength, by |-> w.mode,
                            calls |-> IF w.mode \in VISUALIZATION_MODES
                                      THEN << "resize", "background", w.mode >>
                                      ELSE << "resize", "background" >>,
                            size |-> size, marks |-> marks]]

\* a draw that waits for the context to run (variant that C21 tells apart)
DrawWhenRunning(w) ==
    IF ~w.canvas \/ w.analyser = 0 \/ w.ctxState[w.analyser] # "running"
    THEN w
    ELSE Paint(w)

\* draw: paint one frame, then request the next one
Draw(w) ==
    IF ~w.canvas \/ w.analyser = 0
    THEN w
    ELSE Paint(w)

\* a startVisualization that does not cancel the frame that is scheduled
\* (variant that C5 tells apart)
StartVisualizationNoCancel(w) ==
    IF ~w.isInitialized \/ w.analyser = 0 \/ ~w.canvas
    THEN w
    ELSE Draw(w)

\* startVisualization
StartVisualization(w) ==
    IF ~w.isInitialized \/ w.analyser = 0 \/ ~w.canvas
    THEN w
    ELSE Draw(StopVisualization(w))

\* a close() that releases nothing (variant that C14 tells apart)
CloseContextNot(w, c) == w

\* AudioContext.close(): the state changes when the close settles
CloseContext(w, c) ==
    IF w.ctxState[c] \in {"closing", "closed"} THEN w
    ELSE [w EXCEPT !.ctxState[c] = "closing"]

\* audioElement.pause() and audioElement.src = "" in cleanup: the element
\* stops playing and loading
Silence(w, e) ==
    LET w1 == [w EXCEPT !.paused[e] = TRUE, !.hasSrc[e] = FALSE, !.readyState[e] = 0,
                        !.onloaded[e] = FALSE]
    IN IF e = "int"
       \* the Audio object loadAudio made is referenced by nothing else
       THEN [w1 EXCEPT !.alive[e] = FALSE, !.marker[e] = FALSE,
                       !.srcCtx[e] = 0, !.srcConn[e] = 0]
       ELSE w1

\* a cleanup that leaves the render loop running (variant that C19 tells
\* apart)
CleanupKeepsLoop(w) ==
    LET w2 == IF w.source # NoElem
              THEN [w EXCEPT !.srcConn[w.source] = 0, !.source = NoElem]
              ELSE w
        w3 == IF w2.audioContext # 0 /\ w2.ctxState[w2.audioContext] # "closed"
              THEN [CloseContext(w2, w2.audioContext) EXCEPT !.audioContext = 0]
              ELSE w2
        w4 == [w3 EXCEPT !.analyser = 0, !.anaFft = 0, !.isInitialized = FALSE]
    IN IF w4.isOfficialNode
       THEN [w4 EXCEPT !.audioElement = NoElem]
       ELSE IF w4.audioElement # NoElem
            THEN [Silence(w4, w4.audioElement) EXCEPT !.audioElement = NoElem]
            ELSE w4

\* cleanup
Cleanup(w) ==
    LET w1 == StopVisualization(w)
        w2 == IF w1.source # NoElem
              THEN [w1 EXCEPT !.srcConn[w1.source] = 0, !.source = NoElem]
              ELSE w1
        w3 == IF w2.audioContext # 0 /\ w2.ctxState[w2.audioContext] # "closed"
              THEN [CloseContext(w2, w2.audioContext) EXCEPT !.audioContext = 0]
              ELSE w2
        w4 == [w3 EXCEPT !.analyser = 0, !.anaFft = 0, !.isInitialized = FALSE]
    IN IF w4.isOfficialNode
       THEN [w4 EXCEPT !.audioElement = NoElem]
       ELSE IF w4.audioElement # NoElem
            THEN [Silence(w4, w4.audioElement) EXCEPT !.audioElement = NoElem]
            ELSE w4

\* source.connect(analyser) is accepted: both nodes are of one context
CanConnect(w, e, c) == w.srcCtx[e] = c

\* a visualizer that never finds the marker (variant that C1 tells apart)
HasMarkerNever(w, e) == FALSE

\* has the element a source recorded on it (_audioVisualizerSource)
HasMarker(w, e) == w.marker[e]

\* the inner try/catch of initContext: splice the element into analyser c.
\* lastFail = "reuse" tells the caller that the catch block returned.
Splice(w, e, c) ==
    IF ~HasMarker(w, e)
    THEN [w EXCEPT !.createCalls[e] = IF @ < 2 THEN @ + 1 ELSE @,
                   !.srcCtx[e] = c, !.source = e, !.marker[e] = TRUE,
                   !.srcConn[e] = c, !.anaDest[c] = TRUE]
    ELSE LET wd == [w EXCEPT !.source = e, !.srcConn[e] = 0]
         IN IF CanConnect(wd, e, c)
            THEN [wd EXCEPT !.srcConn[e] = c, !.anaDest[c] = TRUE]
            \* connect threw; the catch block finds the marker, disconnects
            \* and connects again, which throws again
            ELSE DrawPlaceholder([wd EXCEPT !.lastFail = "reuse"])

FreshCtx(w) == Min({c \in CtxIds : w.ctxState[c] = "none"})

\* initContext of connectToAudioElement, for element e
InitContext(w, e, env) ==
    LET w1 == IF w.audioContext # 0 /\ w.ctxState[w.audioContext] # "closed"
              THEN CloseContext(w, w.audioContext)
              ELSE w
    IN IF env = "ctor_throws"
       THEN DrawPlaceholder([w1 EXCEPT !.lastFail = "ctor"])
       ELSE LET c == FreshCtx(w1)
                \* the context starts suspended and resume() is called
                w2 == [w1 EXCEPT !.audioContext = c, !.ctxState[c] = "suspended",
                                 !.analyser = c, !.anaDest[c] = FALSE,
                                 !.anaFft = IF Accepts(w1.fftSize) THEN w1.fftSize.v
                                            ELSE FftDefault]
                w3 == IF Accepts(w1.fftSize) THEN Splice(w2, e, c) ELSE w2
            IN IF ~Accepts(w1.fftSize)
               \* analyser.fftSize = config.fftSize threw: the outer catch
               THEN DrawPlaceholder([w2 EXCEPT !.lastFail = "fft"])
               ELSE IF w3.lastFail = "reuse"
               THEN w3
               ELSE LET w4 == [w3 EXCEPT !.isInitialized = TRUE]
                    IN IF ~w4.paused[e] THEN StartVisualization(w4) ELSE w4


\* an attach that never takes the element for the one it holds (variant that
\* C6 tells apart)
SameElementNever(w, e) == FALSE

\* the element is the one already bound, and the visualizer is initialized
SameElement(w, e) == e = w.audioElement /\ w.isInitialized

\* connectToAudioElement
ConnectToAudioElement(w, e, env) ==
    IF ~w.visualizerEnabled
    THEN w
    ELSE IF SameElement(w, e)
    THEN IF w.animationFrameId = 0 THEN StartVisualization(w) ELSE w
    ELSE LET w1 == IF w.audioElement # e
                   THEN [Cleanup(w) EXCEPT !.released = w.audioElement]
                   ELSE w
             w2 == [w1 EXCEPT !.audioElement = e]
         IN IF w2.readyState[e] >= 2
            THEN InitContext(w2, e, env)
            ELSE LET w3 == [w2 EXCEPT !.listeners[e] = @ + 1]
                 IN IF ~w3.paused[e]
                    THEN [w3 EXCEPT !.timeouts[e] = @ + 1]
                    ELSE w3

\* a setMode without the early return for the mode it already has
\* (variant that C18 tells apart)
SetModeAlways(w, m) ==
    LET w1 == [w EXCEPT !.mode = m,
                        !.modeWrite = IF w.isOfficialNode THEN m ELSE @]
    IN IF w1.isInitialized THEN StartVisualization(w1) ELSE w1

\* setMode
SetMode(w, m) ==
    IF w.mode = m
    THEN w
    ELSE LET w1 == [w EXCEPT !.mode = m,
                             !.modeWrite = IF w.isOfficialNode THEN m ELSE @]
         IN IF w1.isInitialized THEN StartVisualization(w1) ELSE w1

\* setEnabled
SetEnabled(w, enabled, env) ==
    LET w1 == [w EXCEPT !.visualizerEnabled = enabled]
    IN IF ~enabled
       THEN Cleanup(w1)
       ELSE IF w1.isOfficialNode /\ w1.alive["ui"] /\ ~w1.paused["ui"]
            THEN ConnectToAudioElement(w1, "ui", env)
            ELSE w1

\* setBackgroundOpacity: Math.max(0, Math.min(0.5, value || 0))
SetBackgroundOpacity(w, value) ==
    LET v0 == IF value.t = "num" /\ value.v # 0 THEN value.v ELSE 0
        lo == IF v0 < OpacityMax THEN v0 ELSE OpacityMax
        stored == IF lo > 0 THEN lo ELSE 0
    IN [w EXCEPT !.backgroundOpacity = stored,
                 !.opacityProp = IF w.isOfficialNode THEN Num(stored) ELSE @]

\* the callback of the "fft_size" widget; lastFail = "fft" tells that the
\* assignment to analyser.fftSize threw out of the callback
FftCallback(w, value) ==
    LET w1 == [w EXCEPT !.fftSize = value]
    IN IF w1.analyser = 0
       THEN w1
       ELSE IF Accepts(value)
       THEN [w1 EXCEPT !.anaFft = value.v]
       ELSE [w1 EXCEPT !.lastFail = "fft"]

\* loadAudio
LoadAudio(w, env) ==
    IF w.isOfficialNode
    THEN w
    ELSE LET w1 == Cleanup(w)
         IN IF w1.alive["ui"]
            THEN ConnectToAudioElement(w1, "ui", env)
            ELSE [w1 EXCEPT !.alive["int"] = TRUE, !.hasSrc["int"] = TRUE,
                            !.paused["int"] = TRUE, !.readyState["int"] = 0,
                            !.marker["int"] = FALSE, !.onloaded["int"] = TRUE,
                            !.srcCtx["int"] = 0, !.srcConn["int"] = 0,
                            !.createCalls["int"] = 0,
                            !.audioElement = "int"]

\* handleAudioChange; hasValue: the widget value is a non-empty file name
HandleAudioChange(w, hasValue, env) ==
    IF ~hasValue
    THEN DrawPlaceholder(Cleanup(w))
    ELSE IF w.alive["ui"]
    THEN IF w.hasSrc["ui"]
         THEN ConnectToAudioElement(w, "ui", env)
         ELSE [w EXCEPT !.pollers = @ + 1]
    ELSE LoadAudio(w, env)

\* ------------------------------------------------------- readiness polling
\* trySetup of setupOfficialAudioUI: register play/pause/ended on audioUI
\* exhausted: this is the call with attempts > 50
TrySetup(w, exhausted) ==
    IF exhausted
    THEN [w EXCEPT !.setupState = "gaveup"]
    ELSE IF ~w.alive["ui"]
    THEN [w EXCEPT !.setupState = "polling"]
    ELSE [w EXCEPT !.setupState = "listening"]

\* setupParameterWidgets: a custom node reads its widgets' initial values
SetupParameterWidgets(w, m) ==
    IF w.isOfficialNode
    THEN w
    ELSE LET w1 == SetMode(w, m)
         \* a widget value of 0 or "" is not read
         IN IF w1.fftWidget.t = "unset" \/ w1.fftWidget = Num(0)
            THEN w1
            ELSE [w1 EXCEPT !.fftSize = w1.fftWidget]

\* setupAudioWidget: hook the "audio" widget and handle its current value
SetupAudioWidget(w, hasValue, m, env) ==
    LET w1 == IF hasValue THEN HandleAudioChange(w, TRUE, env) ELSE w
    IN SetupParameterWidgets(w1, m)

\* createCanvasWidget: nothing when the node already has the widget
CreateCanvasWidget(w) ==
    IF w.canvasWidgets > 0
    THEN w
    ELSE [w EXCEPT !.canvas = TRUE, !.canvasWidgets = @ + 1]

\* a limit that is never reached (variant that C34 tells apart)
ExhaustedNever(n) == FALSE

\* tryInit's test of its argument
Exhausted(n) == n > MaxAttempts

\* one call of tryInit; exhausted: this is the call with attempts > 50;
\* a call that finds the node not ready sets a timer for
\* tryInit(attempts + 1)
TryInit(w, exhausted, hasValue, m, env) ==
    IF exhausted
    THEN [w EXCEPT !.initState = "gaveup"]
    ELSE IF ~w.hasAudioWidget /\ (~w.isOfficialNode \/ ~w.alive["ui"])
    THEN [w EXCEPT !.attempts = @ + 1]
    ELSE LET w1 == DrawPlaceholder([CreateCanvasWidget(w) EXCEPT !.initState = "done"])
             w2 == IF w1.hasAudioWidget
                   THEN SetupAudioWidget(w1, hasValue, m, env)
                   ELSE w1
         IN IF w2.isOfficialNode THEN TrySetup(w2, FALSE) ELSE w2

\* --------------------------------------------------------------- actions
Commit(w0, op) ==
    \E w \in {Normalize([w0 EXCEPT !.last = op])} :
       /\ Room
       /\ Bounded(w)
       /\ isOfficialNode' = w.isOfficialNode
       /\ hasAudioWidget' = w.hasAudioWidget
       /\ visualizerEnabled' = w.visualizerEnabled
       /\ mode' = w.mode
       /\ audioContext' = w.audioContext
       /\ analyser' = w.analyser
       /\ audioElement' = w.audioElement
       /\ source' = w.source
       /\ animationFrameId' = w.animationFrameId
       /\ isInitialized' = w.isInitialized
       /\ canvas' = w.canvas
       /\ initState' = w.initState
       /\ setupState' = w.setupState
       /\ attempts' = w.attempts
       /\ canvasWidgets' = w.canvasWidgets
       /\ visualizers' = w.visualizers
       /\ destroyed' = w.destroyed
       /\ alive' = w.alive
       /\ hasSrc' = w.hasSrc
       /\ paused' = w.paused
       /\ readyState' = w.readyState
       /\ marker' = w.marker
       /\ listeners' = w.listeners
       /\ timeouts' = w.timeouts
       /\ onloaded' = w.onloaded
       /\ pollers' = w.pollers
       /\ ctxState' = w.ctxState
       /\ anaDest' = w.anaDest
       /\ srcCtx' = w.srcCtx
       /\ srcConn' = w.srcConn
       /\ pendingFrames' = w.pendingFrames
       /\ createCalls' = w.createCalls
       /\ backgroundOpacity' = w.backgroundOpacity
       /\ opacityProp' = w.opacityProp
       /\ fftWidget' = w.fftWidget
       /\ fftSize' = w.fftSize
       /\ anaFft' = w.anaFft
       /\ frame' = w.frame
       /\ modeWrite' = w.modeWrite
       /\ released' = w.released
       /\ rect' = w.rect
       /\ canvasSize' = w.canvasSize
       /\ amplitude' = w.amplitude
       /\ backgroundImageCanvas' = w.backgroundImageCanvas
       /\ imageLoads' = w.imageLoads
       /\ last' = w.last
       /\ lastFail' = w.lastFail

\* the world at the start of an operation
Start == [Cur EXCEPT !.lastFail = "none", !.frame = NoFrame, !.modeWrite = "none",
                   !.released = NoElem]

\* the state before the constructor's own tryInit call
Blank(official, audioWidget, enabled, m, uiThere, saved, fw) ==
    [ isOfficialNode |-> official, hasAudioWidget |-> audioWidget,
      visualizerEnabled |-> enabled, mode |-> m,
      audioContext |-> 0, analyser |-> 0, audioElement |-> NoElem, source |-> NoElem,
      animationFrameId |-> 0, isInitialized |-> FALSE, canvas |-> FALSE,
      initState |-> "polling", setupState |-> "off", attempts |-> 0,
      canvasWidgets |-> 0, visualizers |-> 1, destroyed |-> FALSE,
      alive |-> [e \in Elems |-> e = "ui" /\ uiThere],
      hasSrc |-> [e \in Elems |-> FALSE], paused |-> [e \in Elems |-> TRUE],
      readyState |-> [e \in Elems |-> 0], marker |-> [e \in Elems |-> FALSE],
      listeners |-> [e \in Elems |-> 0], timeouts |-> [e \in Elems |-> 0],
      onloaded |-> [e \in Elems |-> FALSE], pollers |-> 0,
      ctxState |-> [c \in CtxIds |-> "none"], anaDest |-> [c \in CtxIds |-> FALSE],
      srcCtx |-> [e \in Elems |-> 0], srcConn |-> [e \in Elems |-> 0],
      pendingFrames |-> {}, createCalls |-> [e \in Elems |-> 0],
      backgroundOpacity |-> IF ~official THEN 0
                            ELSE IF saved.t = "unset" THEN OpacityDefault
                            ELSE saved.v,
      opacityProp |-> saved, fftWidget |-> fw, fftSize |-> Num(FftDefault),
      anaFft |-> 0, frame |-> NoFrame, modeWrite |-> "none", released |-> NoElem,
      rect |-> CanvasDefault, canvasSize |-> CanvasDefault, amplitude |-> 0,
      backgroundImageCanvas |-> NoImage, imageLoads |-> {},
      last |-> "new", lastFail |-> "none" ]

\* the constructor: fields, then init() which calls tryInit at once
Constructed(official, audioWidget, enabled, m, uiThere, hasValue, wm, saved, fw) ==
    Normalize(TryInit(Blank(official, audioWidget, enabled,
                            IF official THEN m ELSE "wave", uiThere, saved, fw),
                      FALSE, hasValue, wm, "ok"))

\* the variables take the values of the world record w
SetTo(w) ==
    /\ isOfficialNode = w.isOfficialNode
    /\ hasAudioWidget = w.hasAudioWidget
    /\ visualizerEnabled = w.visualizerEnabled
    /\ mode = w.mode
    /\ audioContext = w.audioContext
    /\ analyser = w.analyser
    /\ audioElement = w.audioElement
    /\ source = w.source
    /\ animationFrameId = w.animationFrameId
    /\ isInitialized = w.isInitialized
    /\ canvas = w.canvas
    /\ initState = w.initState
    /\ setupState = w.setupState
    /\ attempts = w.attempts
    /\ canvasWidgets = w.canvasWidgets
    /\ visualizers = w.visualizers
    /\ destroyed = w.destroyed
    /\ alive = w.alive
    /\ hasSrc = w.hasSrc
    /\ paused = w.paused
    /\ readyState = w.readyState
    /\ marker = w.marker
    /\ listeners = w.listeners
    /\ timeouts = w.timeouts
    /\ onloaded = w.onloaded
    /\ pollers = w.pollers
    /\ ctxState = w.ctxState
    /\ anaDest = w.anaDest
    /\ srcCtx = w.srcCtx
    /\ srcConn = w.srcConn
    /\ pendingFrames = w.pendingFrames
    /\ createCalls = w.createCalls
    /\ backgroundOpacity = w.backgroundOpacity
    /\ opacityProp = w.opacityProp
    /\ fftWidget = w.fftWidget
    /\ fftSize = w.fftSize
    /\ anaFft = w.anaFft
    /\ frame = w.frame
    /\ modeWrite = w.modeWrite
    /\ released = w.released
    /\ rect = w.rect
    /\ canvasSize = w.canvasSize
    /\ amplitude = w.amplitude
    /\ backgroundImageCanvas = w.backgroundImageCanvas
    /\ imageLoads = w.imageLoads
    /\ last = w.last
    /\ lastFail = w.lastFail

Init ==
    \E official, audioWidget, enabled, uiThere, hasValue \in BOOLEAN :
      \E m, wm \in ModeInputs :
        SetTo(Constructed(official, audioWidget, enabled, m, uiThere, hasValue, wm,
                          Unset, Num(FftDefault)))

\* a later tryInit call, from its 50 ms timer
TryInitPoll ==
    /\ initState = "polling"
    /\ \E exhausted \in BOOLEAN : \E hasValue \in (IF hasAudioWidget THEN BOOLEAN ELSE {FALSE}) :
         \E wm \in (IF isOfficialNode THEN {mode} ELSE ModeInputs) :
           \E w \in {TryInit(Start, exhausted, hasValue, wm, env) : env \in EnvChoices} :
             \* the count of the calls is left out: any call may be the last
             Commit([w EXCEPT !.attempts = attempts], "tryInit")

\* the timer of tryInit fires, with the count of the calls kept
TryInitTimer ==
    /\ initState = "polling"
    /\ \E hasValue \in (IF hasAudioWidget THEN BOOLEAN ELSE {FALSE}) :
         \E wm \in (IF isOfficialNode THEN {mode} ELSE ModeInputs) :
           \E w \in {TryInit(Start, Exhausted(attempts), hasValue, wm, env) : env \in EnvChoices} :
             Commit(w, "tryInit")

\* onNodeCreated: a visualizer is made only when the node has none
OnNodeCreated(w) ==
    IF w.visualizers > 0 THEN w ELSE [w EXCEPT !.visualizers = @ + 1]

\* the host calls onNodeCreated on the node again
NodeCreated ==
    /\ ~destroyed
    /\ Commit(OnNodeCreated(Start), "created")

\* a later trySetup call, from its 100 ms timer
TrySetupPoll ==
    /\ setupState = "polling"
    /\ \E exhausted \in BOOLEAN : Commit(TrySetup(Start, exhausted), "trySetup")

\* the host creates the audioUI widget and its <audio> element
AudioUIAppears ==
    /\ ~alive["ui"]
    /\ Commit([Start EXCEPT !.alive["ui"] = TRUE], "env")

\* the host gives its player a new file
HostSetsSrc ==
    /\ alive["ui"]
    /\ Commit([Start EXCEPT !.hasSrc["ui"] = TRUE, !.readyState["ui"] = 0,
                            !.paused["ui"] = TRUE], "env")

\* the host's player has its metadata (readyState 1); attach reads the
\* readyState of the Audio object of loadAudio only once it is 2
LoadedMetadata ==
    /\ alive["ui"] /\ hasSrc["ui"] /\ readyState["ui"] = 0
    /\ Commit([Start EXCEPT !.readyState["ui"] = 1], "env")

\* run the n once-listeners attach left on the element, in order
RECURSIVE RunListeners(_, _, _, _)
RunListeners(w, e, n, envs) ==
    IF n = 0 THEN w
    ELSE RunListeners(InitContext(w, e, envs[n]), e, n - 1, envs)

\* "loadeddata": the element's onloadeddata handler (loadAudio), then the
\* listeners of attach, which are removed as they run
OnLoadedData(w, e, envs) ==
    LET n == w.listeners[e]
        w1 == [w EXCEPT !.readyState[e] = 2, !.listeners[e] = 0]
        w2 == IF w.onloaded[e] THEN ConnectToAudioElement(w1, e, envs[n + 1]) ELSE w1
    IN RunListeners(w2, e, n, envs)

LoadedData(e) ==
    /\ alive[e] /\ hasSrc[e] /\ readyState[e] < 2
    /\ \E w \in {OnLoadedData(Start, e, envs) :
                   envs \in [1..(listeners[e] + 1) -> EnvChoices]} :
         Commit(w, "loadeddata")

\* the Audio object of loadAudio fails to load
AudioError ==
    /\ alive["int"] /\ onloaded["int"] /\ readyState["int"] < 2
    /\ Commit(DrawPlaceholder([Start EXCEPT !.onloaded["int"] = FALSE]), "env")

\* onPlay of setupOfficialAudioUI
OnPlay(w, env) ==
    IF ~w.visualizerEnabled THEN w ELSE ConnectToAudioElement(w, "ui", env)

\* onStop of setupOfficialAudioUI
OnStop(w) ==
    IF ~w.visualizerEnabled THEN w ELSE StopVisualization(w)

\* the "play" event reaches onPlay once it is registered
OnPlayEvent(w, env) == IF w.setupState = "listening" THEN OnPlay(w, env) ELSE w

\* the user starts the host's player
Play ==
    /\ alive["ui"] /\ hasSrc["ui"] /\ paused["ui"]
    /\ \E w \in {OnPlayEvent([Start EXCEPT !.paused["ui"] = FALSE], env) : env \in EnvChoices} :
         Commit(w, "play")

\* the user pauses the host's player, or the file ends
Stop ==
    /\ alive["ui"] /\ ~paused["ui"]
    /\ LET w1 == [Start EXCEPT !.paused["ui"] = TRUE]
       IN Commit(IF setupState = "listening" THEN OnStop(w1) ELSE w1, "stop")

\* the callback of the 100 ms timeout of attach
OnTimeout(w, e, env) ==
    IF ~w.isInitialized /\ w.readyState[e] >= 1 THEN InitContext(w, e, env) ELSE w

\* the 100 ms timeout attach set for a playing, not yet loaded element
TimeoutFires(e) ==
    /\ timeouts[e] > 0
    /\ \E w \in {OnTimeout([Start EXCEPT !.timeouts[e] = @ - 1], e, env) : env \in EnvChoices} :
         Commit(w, "timeout")

\* checkSrc of handleAudioChange finds the src set
CheckSrc ==
    /\ pollers > 0 /\ hasSrc["ui"]
    /\ \E w \in {ConnectToAudioElement([Start EXCEPT !.pollers = @ - 1], "ui", env) :
                   env \in EnvChoices} :
         Commit(w, "checkSrc")

\* a frame callback that draws without asking for the next frame (variant
\* that C27 tells apart)
TickOnce ==
    \E f \in pendingFrames :
       Commit([Draw([Start EXCEPT !.pendingFrames = @ \ {f}])
                  EXCEPT !.pendingFrames = pendingFrames \ {f}],
              "tick")

\* the frame callback runs: draw()
Tick ==
    \E f \in pendingFrames :
       Commit(Draw([Start EXCEPT !.pendingFrames = @ \ {f}]), "tick")

\* the "audio" widget's callback
AudioWidgetChange ==
    /\ initState = "done" /\ hasAudioWidget /\ ~destroyed
    /\ \E hasValue \in BOOLEAN :
         \E w \in {HandleAudioChange(Start, hasValue, env) : env \in EnvChoices} :
           Commit(w, IF hasValue THEN "audioChange" ELSE "audioClear")

\* a menu item (official node) or the visualization_mode widget (custom node)
SetModeAction ==
    /\ initState = "done" /\ ~destroyed
    /\ isOfficialNode \/ hasAudioWidget
    /\ \E m \in ModeInputs : Commit(SetMode(Start, m), "setMode")

\* the "Enable visualizer" checkbox, or a caller of setEnabled
SetEnabledAction ==
    /\ initState = "done" /\ ~destroyed
    /\ \E b \in BOOLEAN :
         \E w \in {SetEnabled(Start, b, env) : env \in EnvChoices} :
           Commit(w, IF b THEN "enable" ELSE "disable")

\* onRemoved: destroy()
Destroy ==
    /\ ~destroyed
    /\ Commit([Cleanup(Start) EXCEPT !.destroyed = TRUE], "destroy")

\* a close() the visualizer still holds a reference to settles
CloseSettles ==
    /\ audioContext # 0 /\ ctxState[audioContext] = "closing"
    /\ Commit([Start EXCEPT !.ctxState[audioContext] = "closed"], "env")

\* resume() of a suspended context is fulfilled; while it is pending, and
\* after it is rejected, the context stays suspended
ResumeSettles ==
    \E c \in CtxIds :
       /\ ctxState[c] = "suspended"
       /\ Commit([Start EXCEPT !.ctxState[c] = "running"], "env")

\* the opacity slider of the mode menu, or a caller of setBackgroundOpacity
SetBackgroundOpacityAction ==
    /\ initState = "done" /\ isOfficialNode /\ ~destroyed
    /\ \E value \in OpacityInputs : Commit(SetBackgroundOpacity(Start, value), "opacity")

\* the "fft_size" widget of a custom node gets a value; its callback exists
\* once setupParameterWidgets ran
FftWidgetChange ==
    /\ ~isOfficialNode /\ ~destroyed
    /\ \E value \in FftInputs :
         LET w1 == [Start EXCEPT !.fftWidget = value]
         IN Commit(IF initState = "done" THEN FftCallback(w1, value) ELSE w1, "fft")

Next ==
    \/ TryInitPoll
    \/ TrySetupPoll
    \/ AudioUIAppears
    \/ HostSetsSrc
    \/ LoadedMetadata
    \/ \E e \in Elems : LoadedData(e)
    \/ AudioError
    \/ Play
    \/ Stop
    \/ \E e \in Elems : TimeoutFires(e)
    \/ CheckSrc
    \/ Tick
    \/ AudioWidgetChange
    \/ SetModeAction
    \/ SetEnabledAction
    \/ Destroy
    \/ CloseSettles
    \/ ResumeSettles

Spec == Init /\ [][Next]_vars

\* ------------------------------------------------------- configuration
\* The same visualizer with its configuration inputs free: the saved
\* opacity property, the fft_size widget and every mode, on a node whose
\* audio and audioUI widgets exist, with the operations that attach, draw
\* and configure.
CfgInit ==
    \E official \in BOOLEAN :
      \E m \in VISUALIZATION_MODES, wm \in VISUALIZATION_MODES :
        \E saved \in (IF official THEN SavedOpacities ELSE {Unset}) :
          \E fw \in (IF official THEN {Unset} ELSE FftInputs \cup {Unset}) :
            SetTo(Constructed(official, TRUE, TRUE, m, TRUE, FALSE, wm, saved, fw))

CfgNext ==
    \/ HostSetsSrc
    \/ \E e \in Elems : LoadedData(e)
    \/ Play
    \/ Stop
    \/ Tick
    \/ AudioWidgetChange
    \/ SetBackgroundOpacityAction
    \/ FftWidgetChange

CfgSpec == CfgInit /\ [][CfgNext]_vars

\* ---------------------------------------------------- background image
\* a data URL: url is the size of the image it encodes, of the size of the
\* image it was made from
DataUrl(original, encoded) == [of |-> original, url |-> encoded]

\* setBackgroundImage(dataUrl): the call waits for its image to load
SetBackgroundImage(w, dataUrl) == [w EXCEPT !.imageLoads = @ \cup {dataUrl}]

\* setBackgroundImage(dataUrl) continues once its image has loaded
BackgroundImageLoaded(w, dataUrl) ==
    [w EXCEPT !.imageLoads = @ \ {dataUrl},
              !.backgroundImageCanvas = ImageCanvas(dataUrl.url, MaxImageSize)]

\* setBackgroundImage(null)
ClearBackgroundImage(w) == [w EXCEPT !.backgroundImageCanvas = NoImage]

\* the file input of the mode menu: loadImageAsDataURL scales the file's
\* image and encodes the scaled canvas, setBackgroundImage gets the result
UploadImage ==
    /\ initState = "done" /\ isOfficialNode /\ ~destroyed
    /\ Cardinality(imageLoads) < MaxLoads
    /\ \E img \in ImageInputs :
         Commit(SetBackgroundImage(Start, DataUrl(img, ImageCanvas(img, MaxImageSize))),
                "image")

\* the image a setBackgroundImage call waits for has loaded
ImageLoaded ==
    \E dataUrl \in imageLoads :
       Commit(BackgroundImageLoaded(Start, dataUrl), "imageLoaded")

\* the image a setBackgroundImage call waits for fails to load: the call
\* rejects
ImageFails ==
    \E dataUrl \in imageLoads :
       Commit([Start EXCEPT !.imageLoads = @ \ {dataUrl}], "env")

\* the Clear button of the mode menu
ClearImage ==
    /\ initState = "done" /\ isOfficialNode /\ ~destroyed
    /\ Commit(ClearBackgroundImage(Start), "imageClear")

\* an official node, with or without a background image in its saved
\* properties; the constructor calls setBackgroundImage for a saved one
ImgInit ==
    \E m \in VISUALIZATION_MODES, uiThere \in BOOLEAN :
      \E saved \in ImageInputs \cup {NoImage} :
        LET w == Constructed(TRUE, FALSE, TRUE, m, uiThere, FALSE, m, Unset, Unset)
        IN SetTo(IF saved = NoImage THEN w
                 ELSE SetBackgroundImage(w, DataUrl(saved, saved)))

ImgNext ==
    \/ TryInitPoll
    \/ AudioUIAppears
    \/ UploadImage
    \/ ImageLoaded
    \/ ImageFails
    \/ ClearImage

ImgSpec == ImgInit /\ [][ImgNext]_vars

\* ------------------------------------------------------------ rendering
\* The same visualizer with what draw() reads free: the canvas's on-screen
\* size, the level of the samples, every mode and every fft size the
\* platform takes.

\* the host lays the canvas out again, collapses or hides it
HostResizes ==
    \E r \in RectInputs \ {rect} : Commit([Start EXCEPT !.rect = r], "env")

\* the audio gets louder or falls silent
SignalChanges ==
    \E a \in AmplitudeInputs \ {amplitude} : Commit([Start EXCEPT !.amplitude = a], "env")

\* the "audio" widget's callback, given a file name
AudioWidgetSet ==
    /\ initState = "done" /\ hasAudioWidget /\ ~destroyed
    /\ \E w \in {HandleAudioChange(Start, TRUE, env) : env \in EnvChoices} :
         Commit(w, "audioChange")

RenderInit ==
    \E official \in BOOLEAN :
      \E m \in VISUALIZATION_MODES, wm \in VISUALIZATION_MODES :
        \E fw \in (IF official THEN {Unset} ELSE {Num(n) : n \in PlatformFftSizes}) :
          \E r \in RectInputs, a \in AmplitudeInputs :
            SetTo([Constructed(official, ~official, TRUE, m, TRUE, FALSE, wm, Unset, fw)
                     EXCEPT !.rect = r, !.amplitude = a])

RenderNext ==
    \/ HostSetsSrc
    \/ LoadedData("ui")
    \/ Play
    \/ Tick
    \/ AudioWidgetSet
    \/ HostResizes
    \/ SignalChanges

RenderSpec == RenderInit /\ [][RenderNext]_vars

\* ---- readiness polling with the calls counted
PollInit ==
    \E official, audioWidget, uiThere, hasValue \in BOOLEAN :
      \E m \in ModeInputs :
        SetTo(Constructed(official, audioWidget, TRUE, m, uiThere, hasValue, m,
                          Unset, Num(FftDefault)))

PollNext ==
    \/ TryInitTimer
    \/ TrySetupPoll
    \/ AudioUIAppears
    \/ HostSetsSrc
    \/ NodeCreated

\* a timer that was set fires
PollSpec == PollInit /\ [][PollNext]_vars /\ WF_vars(TryInitTimer)

\* ---- the mode values the host hands over
\* node.properties and the "visualization_mode" widget hold whatever the
\* loaded workflow holds: the three modes, or a string that is none of them
ModeValues == VISUALIZATION_MODES \cup {"spectrogram"}

ModeInit ==
    \E official \in BOOLEAN :
      \E m \in ModeValues, a \in AmplitudeInputs :
        SetTo([Constructed(official, ~official, TRUE, m, TRUE, FALSE, m, Unset,
                           IF official THEN Unset ELSE Num(FftDefault))
                 EXCEPT !.amplitude = a])

ModeNext ==
    \/ HostSetsSrc
    \/ LoadedData("ui")
    \/ Play
    \/ Stop
    \/ Tick
    \/ AudioWidgetSet
    \/ SetModeAction
    \/ SignalChanges

ModeSpec == ModeInit /\ [][ModeNext]_vars

\* ------------------------------------------------------------ vocabulary
\* a MediaElementSource exists for the element
Spliced(e) == srcCtx[e] # 0

\* the element's sound reaches the output: its source node feeds an analyser
\* that feeds the destination of a context that is open
Routed(e) ==
    /\ srcConn[e] # 0
    /\ anaDest[srcConn[e]]
    /\ ctxState[srcConn[e]] \in {"suspended", "running"}

\* the element can be heard when played
Audible(e) == Spliced(e) => Routed(e)

\* the Capturing state for element e
Capturing(e) ==
    /\ audioElement = e /\ isInitialized
    /\ analyser # 0 /\ srcConn[e] = analyser /\ Routed(e)
    /\ Cardinality(pendingFrames) = 1

\* the operations that call connectToAudioElement on the host's element
AttachOps == {"play", "checkSrc", "audioChange", "enable"}

\* the fields of the tap: contexts, nodes and their connections
tap == << audioContext, analyser, source, ctxState, anaDest, srcCtx, srcConn,
          marker, createCalls >>

\* ------------------------------------------------------------------ claims
\* C1: createMediaElementSource is called at most once on an element, and a
\* source the visualizer holds is the one recorded in the element's marker.
C1_OneSplicePerElement ==
    \A e \in Elems :
       /\ createCalls[e] <= 1
       /\ (source = e => marker[e] /\ createCalls[e] = 1)

\* an attach has found the marker and taken the recorded source again
C1_Witness ==
    /\ last \in AttachOps /\ lastFail = "reuse"
    /\ source = "ui" /\ marker["ui"] /\ createCalls["ui"] = 1

\* C2: every spliced element is routed, through an analyser, to the
\* destination of a context that is not closed.
C2_SplicedStaysRouted == \A e \in Elems : alive[e] => Audible(e)

\* C3: a failed attach does not take the sound away from an element that
\* could be heard before it.
C3_FailedAttachKeepsSound ==
    [][lastFail' # "none" => \A e \in Elems : (alive[e] /\ Audible(e)) => Audible(e)']_vars

\* C4: the visualizer never pauses the host's audio element and never
\* clears its src: the element stops only when the user or the host stops it.
C4_NeverTouchesPlayback ==
    [][/\ (~paused["ui"] /\ paused'["ui"]) => last' \in {"stop", "env"}
       /\ ~(hasSrc["ui"] /\ ~hasSrc'["ui"])]_vars

\* C5: at most one frame request is pending, and it is the one
\* animationFrameId names.
C5_OneRenderLoop ==
    /\ Cardinality(pendingFrames) <= 1
    /\ pendingFrames \subseteq {animationFrameId}

\* startVisualization ran while the loop was running, and one loop runs
C5_Witness ==
    /\ last = "setMode" /\ isInitialized /\ Cardinality(pendingFrames) = 1

\* C6: attaching the element that is bound and initialized changes nothing
\* of the tap, and exactly one render loop runs afterwards: the one that ran
\* before, if one did.
SameElementAttach ==
    /\ visualizerEnabled /\ audioElement = "ui" /\ isInitialized /\ hasSrc["ui"]
    /\ last' \in AttachOps
    /\ last' = "play" => setupState = "listening"
    /\ last' = "enable" => isOfficialNode /\ ~paused["ui"]

Reattach ==
    /\ visualizerEnabled' /\ ~isInitialized /\ audioContext = 0 /\ audioElement = NoElem
    /\ Spliced("ui") /\ readyState["ui"] = 2 /\ ~paused'["ui"]
    /\ last' \in AttachOps
    /\ last' = "play" => setupState = "listening"
    /\ last' = "enable" => isOfficialNode
    /\ lastFail' # "ctor"

C7_ReattachRestoresCapturing ==
    [][Reattach => Capturing("ui")']_vars

\* C8: a play signal reaches Capturing when the visualizer is enabled (and
\* the element has loaded, and a context can be constructed), and changes
\* nothing of the visualizer when it is disabled.
PlaySignal == last' = "play" /\ setupState = "listening"

C8_PlayCapturesIffEnabled ==
    [][PlaySignal =>
          /\ (visualizerEnabled /\ readyState["ui"] = 2 /\ lastFail' # "ctor")
                => Capturing("ui")'
          /\ ~visualizerEnabled
                => UNCHANGED << tap, audioElement, isInitialized, pendingFrames,
                                animationFrameId, listeners, timeouts >>]_vars

\* C9: a pause or ended signal leaves no frame request pending and changes
\* nothing else of the visualizer.
StopSignal == last' = "stop" /\ setupState = "listening"

C9_StopOnlyStopsLoop ==
    [][StopSignal =>
          /\ pendingFrames' = {}
          /\ UNCHANGED << tap, audioElement, isInitialized >>]_vars

\* C10: setEnabled(false) is a full detach.
C10_DisableDetaches ==
    last = "disable" =>
       /\ pendingFrames = {} /\ animationFrameId = 0
       /\ ~isInitialized /\ analyser = 0 /\ source = NoElem /\ audioContext = 0
       /\ \A c \in CtxIds : ctxState[c] \notin {"suspended", "running"}

\* C11: setEnabled(true) after setEnabled(false) on an official node whose
\* element is playing (and loaded, and a context can be constructed) reaches
\* Capturing in the same step; with the element paused it attaches nothing.
ReEnable == last' = "enable" /\ ~visualizerEnabled /\ isOfficialNode /\ alive["ui"]

C11_ReEnableWhilePlayingCaptures ==
    [][ReEnable =>
          /\ (~paused["ui"] /\ readyState["ui"] = 2 /\ lastFail' # "ctor")
                => Capturing("ui")'
          /\ paused["ui"]
                => UNCHANGED << tap, audioElement, isInitialized, pendingFrames,
                                animationFrameId, listeners, timeouts >>]_vars

\* C12: after destroy() no callback of the visualizer changes its state: no
\* context, node, connection, binding or frame request is made or changed.
C12_NothingRunsAfterDestroy ==
    [][destroyed =>
          UNCHANGED << tap, audioElement, isInitialized, pendingFrames,
                       animationFrameId >>]_vars

\* C13: in every reachable state stopVisualization leaves no frame request
\* pending (so no tick can run until a frame is requested again), a second
\* call changes nothing, and a call with no frame pending changes nothing.
C13_StopCancelsAndIsIdempotent ==
    LET w == StopVisualization(Cur)
    IN /\ w.pendingFrames = {} /\ w.animationFrameId = 0
       /\ StopVisualization(w) = w
       /\ pendingFrames = {} => w = Cur

\* a pause signal stopped the loop of an initialized, enabled visualizer
C13_Witness ==
    /\ last = "stop" /\ setupState = "listening" /\ visualizerEnabled
    /\ isInitialized /\ audioElement = "ui" /\ Routed("ui")
    /\ pendingFrames = {} /\ animationFrameId = 0

\* the contexts the visualizer made and has not called close() on
OpenContexts == {c \in CtxIds : ctxState[c] \in {"suspended", "running"}}

\* the operations that are one call of cleanup() and nothing after it
DetachOps == {"disable", "destroy", "audioClear"}

\* C14: at most one AudioContext of the visualizer is open at any time, it
\* is the one this.audioContext refers to, and after cleanup() none is open.
C14_AtMostOneOpenContext ==
    /\ Cardinality(OpenContexts) <= 1
    /\ OpenContexts \subseteq {audioContext}
    /\ last \in DetachOps => OpenContexts = {}

\* a detach has closed the context that made the element's source
C14_Witness ==
    /\ last = "disable" /\ audioContext = 0 /\ OpenContexts = {}
    /\ Spliced("ui") /\ ctxState[srcCtx["ui"]] = "closed"

\* C15: the stored background opacity is within [0, 0.5], whatever was
\* given to setBackgroundOpacity or found in the saved properties.
C15_OpacityInRange == backgroundOpacity \in 0..OpacityMax

\* the FFT sizes the specification calls valid: powers of two in 128..32768
SupportedFftSizes == {Pow2(k) : k \in 7..15}

C17_FftSizeAlwaysSupported ==
    /\ fftSize.t = "num" /\ fftSize.v \in SupportedFftSizes
    /\ anaFft # 0 => anaFft \in SupportedFftSizes
    /\ lastFail # "fft"


\* a step of setMode, and what such a step may change when it is given
\* the mode the visualizer already has
ModeStep == last' = "setMode"
Observed(w) == [w EXCEPT !.last = "setMode"]

\* C18: setMode with a mode other than the current one while Capturing:
\* the frame drawn next is painted by the new mode's renderer, exactly one
\* render loop runs afterwards, and nothing throws; setMode with the
\* current mode changes nothing: no property is written, no frame is
\* drawn, the scheduled frame request stays the one it was.
C18_SetModeSwitchesRenderer ==
    [][ModeStep =>
         /\ (mode' # mode /\ \E e \in Elems : Capturing(e)) =>
               /\ frame'.by = mode' /\ frame'.kind # "none"
               /\ \E e \in Elems : Capturing(e)'
               /\ pendingFrames' = {animationFrameId'}
               /\ lastFail' = "none"
               /\ UNCHANGED tap
         /\ mode' = mode =>
               /\ Observed(Cur)' = Observed(Start)
               /\ modeWrite' = "none" /\ frame' = NoFrame
               /\ UNCHANGED << pendingFrames, animationFrameId >>]_vars

C18_Witness ==
    /\ last = "setMode" /\ frame.by = mode /\ frame.kind = "time"
    /\ isOfficialNode /\ modeWrite = mode
    /\ Capturing("ui") /\ pendingFrames = {animationFrameId}

\* a step in which connectToAudioElement is called with an element other
\* than the bound one
Rebind == released' # NoElem

\* nothing of a binding is left in world w
Released(w) ==
    /\ w.pendingFrames = {} /\ w.animationFrameId = 0
    /\ w.source = NoElem /\ \A e \in Elems : w.srcConn[e] = 0
    /\ w.audioContext = 0 /\ w.analyser = 0
    /\ \A c \in CtxIds : w.ctxState[c] \notin {"suspended", "running"}
    /\ ~w.isInitialized

\* C19: when connectToAudioElement is called with an element other than
\* the bound one, the source it holds is the bound element's, and the
\* cleanup it starts with leaves the loop stopped, that source
\* disconnected, every earlier AudioContext closed (close() called) and
\* isInitialized false; what the attach then creates is created in that
\* released world: afterwards the only open context, the only source held
\* and the only frame request are those of the new element.
C19_RebindReleasesFirst ==
    [][Rebind =>
         /\ released' = audioElement /\ audioElement' # audioElement
         /\ source = audioElement \/ srcConn[audioElement] = 0
         /\ Released(Cleanup(Start))
         /\ srcConn'[audioElement] = 0
         /\ OpenContexts' \subseteq {audioContext'}
         /\ source' \in {NoElem, audioElement'}
         /\ pendingFrames' \subseteq {animationFrameId'}]_vars

C19_Witness ==
    /\ released = "int" /\ audioElement = "ui" /\ ~alive["int"]
    /\ Capturing("ui") /\ OpenContexts = {audioContext}

\* a step whose attach found the element's marker, failed to connect the
\* recorded source, failed again in the catch block and drew the placeholder
ReuseFailed == lastFail' = "reuse"

\* C20: when the splice throws and the reuse of the recorded source throws
\* too, the attach ends with the visualizer not marked initialized, no
\* frame request pending, and every element that could be heard before
\* still heard.
C20_FailedReuseLeavesNothing ==
    [][ReuseFailed =>
         /\ ~isInitialized'
         /\ pendingFrames' = {} /\ animationFrameId' = 0
         /\ \A e \in Elems : (alive[e] /\ Audible(e)) => Audible(e)']_vars

\* a step in which an attach initialises the visualizer
Initialises == ~isInitialized /\ isInitialized' /\ lastFail' = "none"

\* a step in which a resume() is fulfilled
ResumeFulfilled == \E c \in CtxIds : ctxState[c] = "suspended" /\ ctxState'[c] = "running"

\* C21: resume() is fire-and-forget.  The attach that initialises the
\* visualizer ends with the new context still suspended, and has drawn and
\* requested a frame if the element plays; a tick in a context whose
\* resume is pending or was rejected (still suspended) draws and requests
\* the next frame; the fulfilment of a resume changes the context's state
\* and nothing else: no frame request, listener, timer or binding.
C21_ResumeIsFireAndForget ==
    [][/\ Initialises =>
             /\ ctxState'[audioContext'] = "suspended"
             /\ (audioElement' # NoElem /\ ~paused'[audioElement']) =>
                   frame'.kind # "none" /\ pendingFrames' = {animationFrameId'}
       /\ (last' = "tick" /\ isInitialized /\ analyser # 0
             /\ ctxState[analyser] = "suspended") =>
             frame'.kind # "none" /\ Cardinality(pendingFrames') = 1
       /\ ResumeFulfilled =>
             UNCHANGED << pendingFrames, animationFrameId, isInitialized,
                          audioElement, source, analyser, audioContext,
                          srcCtx, srcConn, anaDest, listeners, timeouts,
                          pollers, paused >>]_vars

C21_Witness ==
    /\ last = "tick" /\ frame.kind # "none" /\ Capturing("ui")
    /\ ctxState[audioContext] = "suspended"

\* the last operation drew a frame
Drew == frame.kind # "none"

\* C22: when the samples the analyser holds are all zero, the frame drawn
\* is flat in every mode: every bar has height 0, every radial line and
\* every reflection line has length 0, and every point of the wave is at
\* y = HEIGHT / 2 (the second wave 5 pixels below it).
C22_SilenceDrawsFlat ==
    (Drew /\ amplitude = 0) =>
        /\ frame.by = "bars" => frame.marks.main = {0}
        /\ frame.by = "circular" => frame.marks.main = {0} /\ frame.marks.aux = {0}
        /\ frame.by = "wave" =>
              /\ frame.marks.main = {128 * frame.size.h}
              /\ frame.marks.aux = {128 * frame.size.h + 5 * 256}

C22_Witness ==
    /\ last = "tick" /\ amplitude = 0 /\ frame.by = "wave"
    /\ frame.size = Size(640, 360) /\ frame.marks.main = {128 * 360}

\* C23: for every fft size that is a power of two in 128..32768,
\* drawCircular reads 180 samples, at the indices i * step for i in 0..179
\* with step = floor(bufferLength / 180), all of them within
\* 0..bufferLength - 1; for bufferLength 1024 the step is 5.
C23_CircularReadsInRange ==
    (Drew /\ frame.by = "circular" /\ anaFft \in SupportedFftSizes) =>
        /\ frame.len * 2 = anaFft
        /\ frame.marks.reads = 180
        /\ frame.marks.step = frame.len \div 180
        /\ frame.marks.lo = 0 /\ frame.marks.hi = 179 * frame.marks.step
        /\ frame.marks.hi <= frame.len - 1
        /\ frame.len = 1024 => frame.marks.step = 5

C23_Witness ==
    /\ last = "tick" /\ frame.by = "circular" /\ frame.len = 1024
    /\ frame.marks.step = 5 /\ frame.marks.hi = 895 /\ frame.marks.reads = 180

\* C24: a tick that finds the canvas's on-screen size with zero width or
\* zero height paints no background and dispatches to no renderer.
C24_ZeroSizeTickDrawsNothing ==
    (last = "tick" /\ (rect.w = 0 \/ rect.h = 0)) =>
        \A i \in DOMAIN frame.calls : frame.calls[i] \notin {"background"} \cup VISUALIZATION_MODES

\* a step in which a setBackgroundImage call caches its canvas, and the
\* image that canvas was made from
Caches == last' = "imageLoaded"
Cached == {dataUrl.of : dataUrl \in imageLoads \ imageLoads'}

\* a dimension of the canvas is within half a pixel of the image's
\* dimension times scale, scale being 512 / longest edge
Scaled(c, d, longest) == 2 * (c * longest - d * MaxImageSize) \in (0 - longest)..longest

\* C25 as stated: the cached canvas always has its longest edge at most
\* 512 and both edges at least 1; made from an image within 512 it has the
\* image's size, and made from a larger image it keeps the aspect ratio up
\* to rounding: each edge is the image's edge times 512 / longest edge,
\* rounded to a pixel.
C25_ImageCappedRatioKept ==
    /\ [](backgroundImageCanvas # NoImage =>
            LET c == backgroundImageCanvas
            IN Max(c.w, c.h) <= MaxImageSize /\ c.w >= 1 /\ c.h >= 1)
    /\ [][Caches =>
            \A img \in Cached :
               LET c == backgroundImageCanvas'
                   longest == Max(img.w, img.h)
               IN /\ longest <= MaxImageSize => c = img
                  /\ longest > MaxImageSize =>
                        Scaled(c.w, img.w, longest) /\ Scaled(c.h, img.h, longest)]_vars

\* C25 amended: the same, but an edge whose scaled length rounds to 0 is
\* 1 pixel, so the ratio of a very long and thin image is not kept.
C25_ImageCappedRatioKeptUnlessThin ==
    /\ [](backgroundImageCanvas # NoImage =>
            LET c == backgroundImageCanvas
            IN Max(c.w, c.h) <= MaxImageSize /\ c.w >= 1 /\ c.h >= 1)
    /\ [][Caches =>
            \A img \in Cached :
               LET c == backgroundImageCanvas'
                   longest == Max(img.w, img.h)
               IN /\ longest <= MaxImageSize => c = img
                  /\ longest > MaxImageSize =>
                        /\ \/ Scaled(c.w, img.w, longest)
                           \/ c.w = 1 /\ 2 * img.w * MaxImageSize < longest
                        /\ \/ Scaled(c.h, img.h, longest)
                           \/ c.h = 1 /\ 2 * img.h * MaxImageSize < longest]_vars

C25_Witness ==
    /\ last = "imageLoaded" /\ backgroundImageCanvas = Size(512, 1)

\* a step taken right after a pause or ended signal stopped the loop, the
\* bound element paused before and after it
StaysPaused ==
    /\ last = "stop" /\ pendingFrames = {}
    /\ audioElement # NoElem /\ audioElement' = audioElement
    /\ paused[audioElement] /\ paused'[audioElement]

\* C26: while the bound element is paused or ended the render loop stays
\* stopped: the operation that follows the pause or ended signal, unless
\* it is the next play, requests no frame.
C26_PausedLoopStaysStopped ==
    [][StaysPaused => pendingFrames' = {}]_vars

Disabled == ~visualizerEnabled /\ ~visualizerEnabled'

\* C28: between setEnabled(false) and the next setEnabled(true) no step
\* (a pending "loadeddata" listener, the 100 ms timeout, the src poller,
\* a play signal) makes an AudioContext current, sets isInitialized, gives
\* the visualizer a source or requests a frame.
C28_DisabledStaysTornDown ==
    [][Disabled =>
          /\ isInitialized' => isInitialized
          /\ audioContext = 0 => audioContext' = 0
          /\ source = NoElem => source' = NoElem
          /\ pendingFrames = {} => pendingFrames' = {}]_vars

\* C29: while the visualizer is enabled, its node not removed and
\* isInitialized is true, the
\* source the visualizer holds is the source node of the bound element, and
\* that node feeds the current analyser in a context that is not closed.
C29_InitializedMeansSpliced ==
    (isInitialized /\ visualizerEnabled /\ ~destroyed) =>
        /\ audioElement # NoElem /\ source = audioElement
        /\ analyser # 0 /\ analyser = audioContext
        /\ srcConn[audioElement] = analyser
        /\ ctxState[analyser] # "closed"

\* C30: a pending frame request (animationFrameId not null) implies that
\* isInitialized is true and that the analyser and the canvas context exist;
\* a step that clears the analyser or isInitialized leaves no frame request.
Clears == (analyser # 0 /\ analyser' = 0) \/ (isInitialized /\ ~isInitialized')

C30_PendingFrameMeansReady ==
    /\ [](animationFrameId # 0 => isInitialized /\ analyser # 0 /\ canvas)
    /\ [][Clears => animationFrameId' = 0 /\ pendingFrames' = {}]_vars

C30_Witness ==
    /\ last = "tick" /\ animationFrameId # 0 /\ frame.kind # "none"
    /\ isInitialized /\ analyser # 0 /\ canvas /\ lastFail = "none"

\* the Clear button was the last call of setBackgroundImage, made while an
\* earlier call still waits for its image
ClearedWhileLoading == last = "imageClear" /\ imageLoads # {}

\* C31: when setBackgroundImage(null) is called while an earlier
\* setBackgroundImage(dataUrl) still waits for its image, the background
\* stays cleared when that image arrives.
C31_ClearIsLastWord ==
    [][(ClearedWhileLoading /\ last' = "imageLoaded") =>
          backgroundImageCanvas' = NoImage]_vars

\* C32: every tick that draws finds config.mode among the three modes and
\* dispatches to a renderer.
C32_TickHasRenderer ==
    (last = "tick" /\ frame.kind # "none") =>
        /\ mode \in VISUALIZATION_MODES
        /\ \E i \in DOMAIN frame.calls : frame.calls[i] \in VISUALIZATION_MODES

\* C33: for every fft size that is a power of two in 128..32768, the step
\* of drawCircular is at least 1, so the 180 indices i * step it reads are
\* pairwise distinct: the last one is 179 steps above the first.
C33_CircularStepPositive ==
    (frame.kind # "none" /\ frame.by = "circular" /\ anaFft \in SupportedFftSizes) =>
        /\ frame.marks.step >= 1
        /\ frame.marks.hi - frame.marks.lo >= BarsToDraw - 1

\* C34: the polling of init() ends: tryInit tests the node at most 51 times
\* (attempts 0..50), the call after those gives up, and every polling
\* eventually stops; the node gets at most one "visualizer_canvas" widget
\* and at most one AudioVisualizer.
C34_PollingTerminates ==
    /\ [](attempts <= MaxAttempts + 1)
    /\ [](canvasWidgets <= 1 /\ visualizers <= 1)
    /\ [](initState = "gaveup" => attempts = MaxAttempts + 1 /\ canvasWidgets = 0)
    /\ [][(last' = "tryInit" /\ attempts > MaxAttempts) => initState' = "gaveup"]_vars
    /\ <>(initState # "polling")

C34_Witness ==
    /\ last = "tryInit" /\ initState = "gaveup"
    /\ attempts = MaxAttempts + 1 /\ canvasWidgets = 0 /\ visualizers = 1
====
